---- MODULE Spec2Model ----
(***************************************************************************)
(* A model of the psa card tracker: the card store (collection.py), its    *)
(* equivalence index (Collection._organise / find_dupes) and the valuation *)
(* command (price.py).                                                     *)
(*                                                                         *)
(* Representation.  A JSON card is a record with one field per key the     *)
(* code reads.  A key that is absent (or null) is the string "NONE" for    *)
(* string-valued keys and 0 for grade; price, medium, avg_price and        *)
(* last_updated hold the value default.json merges in when the key is      *)
(* absent (0, no observations, 0, never), which is what price.py reads     *)
(* through card["selling"]["price"] and card["sales_data"][...].           *)
(* Floating point values are fixed point: a scale factor is the exact      *)
(* rational <<num, den>>, a source weight is in hundredths, a scaled price *)
(* in tenths of a JPY, an outlier weight in thousandths.  A confidence     *)
(* score is the number of 1/6 increments added.                            *)
(***************************************************************************)
EXTENDS Integers, Sequences, FiniteSets, TLC

VARIABLES
  disk,           \* ./collection.json: year -> cert -> card
  _data,          \* Collection._data of the running command
  data,           \* Collection.data: cert -> card with its year
  hash,           \* Collection.hash
  stats_data,     \* Stats().collection.data, loaded when the command starts
  pc,             \* where the command is: idle, overwrite, collect, save, done
  mode,           \* fresh, copy, recalc, recalc_all, find
  cert,           \* Price.cert
  copy_cert,      \* Price.copy_cert
  slot,           \* position in the website/status loops of _collect_prices
  pricing_data,   \* Price.pricing_data
  prices_dict,    \* Price.prices_dict["medium"]
  price_changed,  \* Price.price_changed
  avg_price,      \* Price.avg_price
  okay,           \* the answer read at the save prompt
  err,            \* the exception that ended the command, or "none"
  writes,         \* the certs Collection.update was called for, in order
  today,          \* date.today()
  runs,           \* commands started so far
  entered,        \* observations entered so far
  matches,        \* what find_dupes returned
  out,            \* the message _collect_prices printed on rejecting an entry
  default,        \* the keys of ./default.json
  set_prices,     \* ./set_prices.json
  arg,            \* the arguments of a function under study
  ret             \* what it returned

vars == <<disk, _data, data, hash, stats_data, pc, mode, cert, copy_cert, slot,
          pricing_data, prices_dict, price_changed, avg_price, okay, err,
          writes, today, runs, entered, matches, out, default, set_prices,
          arg, ret>>

\* what the valuation command and find_dupes leave alone
elsewhere == <<default, set_prices, arg, ret>>

\* everything but the message of the collection loop
but_out == <<disk, _data, data, hash, stats_data, pc, mode, cert, copy_cert,
             slot, pricing_data, prices_dict, price_changed, avg_price, okay,
             err, writes, today, runs, entered, matches, elsewhere>>

(***************************************************************************)
(* Bounds of the model.                                                    *)
(***************************************************************************)
MaxObs == 1
MaxRuns == 2
\* the longest observation list _calculate is studied on
MaxList == 3
\* the greatest id a set is made with
MaxSetId == 2

Grades == {9, 10}
Prices == {10}
Signs == {"NONE", "True"}
YearOrder == <<"1999", "2000">>
CertOrder == <<"101", "102", "103">>
UnknownCert == "999"

(***************************************************************************)
(* Cards.                                                                  *)
(***************************************************************************)
Websites == <<"ebay", "mercari">>
Statuses == <<"selling", "sold">>
\* the (website, status) pairs in the order the loops of _collect_prices
\* visit them
Slots == <<<<"ebay", "selling">>, <<"ebay", "sold">>,
           <<"mercari", "selling">>, <<"mercari", "sold">>>>

Details == <<"1st", "base_no_rarity", "shadowless", "shining", "FA", "EX",
             "M", "LV.X", "LEGEND", "BREAK", "bandai", "topsun_nonumber",
             "promo">>

EmptyMedium == [s \in 1..Len(Slots) |-> <<>>]

BlankCard ==
  [language |-> "NONE", pkmn |-> "NONE", energy |-> "NONE",
   trainer |-> "NONE", set |-> "NONE",
   flags |-> <<>>, notes |-> "NONE",
   grade |-> 0, sign |-> "NONE",
   price |-> 0, medium |-> EmptyMedium, avg_price |-> 0, last_updated |-> 0]

\* the keys of default.json: every key a card may have, year apart;
\* "selling" holds price, "sales_data" holds medium, avg_price, last_updated
DefaultKeys ==
  {"language", "pkmn", "energy", "trainer", "set", "notes", "grade", "sign",
   "selling", "sales_data"} \cup {Details[i] : i \in 1..Len(Details)}

\* set_prices.json before any set is made
EmptySetPrices == [next_autoincrement_id |-> "1", sets |-> <<>>, certs |-> <<>>]

Range(s) == {s[i] : i \in 1..Len(s)}

RECURSIVE SeqOfSet(_, _)
\* the elements of set S in the order of sequence ord
SeqOfSet(ord, S) ==
  IF ord = <<>> THEN <<>>
  ELSE (IF Head(ord) \in S THEN <<Head(ord)>> ELSE <<>>) \o SeqOfSet(Tail(ord), S)

Years(d) == DOMAIN d
CertsOf(d) == UNION {DOMAIN d[y] : y \in DOMAIN d}

\* _flatten_data never finding a cert twice
NeverOverlaps(d) == FALSE

\* _flatten_data raises when a cert appears under two years
FlattenFails(d) ==
  \E y1, y2 \in DOMAIN d : y1 # y2 /\ DOMAIN d[y1] \cap DOMAIN d[y2] # {}

\* _flatten_data followed by _apply_defaults: every card, with its year
_flatten_data(d) ==
  [c \in CertsOf(d) |->
     LET y == CHOOSE y \in DOMAIN d : c \in DOMAIN d[y]
     IN  [year |-> y] @@ d[y][c]]

(***************************************************************************)
(* The equivalence index.                                                  *)
(***************************************************************************)
\* Collection.get_attr, for a string-valued key
get_attr(card, attr) == card[attr]

\* Collection.get_attr(card, detail): flags holds the details the card has
DetailAttr(card, detail) ==
  IF detail \in DOMAIN card.flags THEN card.flags[detail] ELSE "NONE"

\* Collection.get_attr(card, "grade"): str(card["grade"]) or "NONE"
GradeAttr(card) == IF card.grade = 0 THEN "NONE" ELSE ToString(card.grade)

\* card_hash at "base_hash = card_hash": year, language and the species
BaseHash(year, card) ==
  <<year, get_attr(card, "language")>> \o
  (IF card.pkmn # "NONE" THEN <<card.pkmn>>
   ELSE IF card.energy # "NONE" THEN <<"energy">>
   ELSE IF card.trainer # "NONE" THEN <<"trainer">>
   ELSE <<>>)

\* card_hash as _organise has built it when it appends to level k's list
CardHash(year, card, k) ==
  BaseHash(year, card)
  \o (IF k >= 2 THEN <<get_attr(card, "set")>> ELSE <<>>)
  \o (IF k >= 3 THEN [i \in 1..Len(Details) |-> DetailAttr(card, Details[i])] ELSE <<>>)
  \o (IF k >= 4 THEN <<IF card.sign # "NONE" THEN "True" ELSE "False">> ELSE <<>>)
  \o (IF k >= 5 THEN <<get_attr(card, "notes")>> ELSE <<>>)
  \o (IF k >= 6 THEN <<GradeAttr(card), get_attr(card, "sign")>> ELSE <<>>)

\* the (year, cert) pairs in the order _organise visits them
Visits(d) ==
  LET RECURSIVE go(_)
      go(ys) ==
        IF ys = <<>> THEN <<>>
        ELSE LET y == Head(ys)
                 cs == SeqOfSet(CertOrder, DOMAIN d[y])
             IN  [i \in 1..Len(cs) |-> <<y, cs[i]>>] \o go(Tail(ys))
  IN  go(SeqOfSet(YearOrder, DOMAIN d))

\* the key under which _organise files a card at level k: always base_hash
LevelKey(year, card, k) == BaseHash(year, card)

\* hash[key][level k] after the first loop of _organise, vs being the cards
\* in the order of the loop
LevelList(vs, d, key, k) ==
  LET hit == {i \in 1..Len(vs) : LevelKey(vs[i][1], d[vs[i][1]][vs[i][2]], k) = key}
      RECURSIVE go(_)
      go(i) ==
        IF i > Len(vs) THEN <<>>
        ELSE (IF i \in hit THEN <<vs[i][2]>> ELSE <<>>) \o go(i + 1)
  IN  go(1)

\* the keys of hash, in insertion order
HashKeys(d) ==
  LET vs == Visits(d)
      keys == [i \in 1..Len(vs) |-> BaseHash(vs[i][1], d[vs[i][1]][vs[i][2]])]
      RECURSIVE go(_)
      go(i) ==
        IF i > Len(vs) THEN <<>>
        ELSE (IF \E j \in 1..(i - 1) : keys[j] = keys[i] THEN <<>> ELSE <<keys[i]>>)
             \o go(i + 1)
  IN  go(1)

Occurrences(s, x) == Cardinality({i \in 1..Len(s) : s[i] = x})

\* hash[key]["prob"]: 1/6 for every cert of l6, plus 1/6 for every level
\* l5..l1 whose list holds the cert, once per occurrence of the cert in l1
Prob(levels) ==
  [c \in Range(levels[6]) |->
     1 + Occurrences(levels[1], c)
         * Cardinality({k \in 1..5 : c \in Range(levels[k])})]

\* Collection._organise
_organise(d) ==
  LET vs == Visits(d)
  IN  [key \in Range(HashKeys(d)) |->
         LET levels == [k \in 1..6 |-> LevelList(vs, d, key, k)]
         IN  [levels |-> levels, prob |-> Prob(levels)]]

RECURSIVE SortByProb(_)
\* sorted(matches, reverse=True, key=match_prob): stable, descending
SortByProb(ms) ==
  IF ms = <<>> THEN <<>>
  ELSE LET best == CHOOSE i \in 1..Len(ms) :
                     /\ \A j \in 1..Len(ms) : ms[j].match_prob <= ms[i].match_prob
                     /\ \A j \in 1..(i - 1) : ms[j].match_prob < ms[i].match_prob
           rest == [j \in 1..(Len(ms) - 1) |-> IF j < best THEN ms[j] ELSE ms[j + 1]]
       IN  <<ms[best]>> \o SortByProb(rest)

\* find_dupes listing every group, in the order of hash, unsorted
find_dupes_unsorted(h, keys, c) ==
  [i \in 1..Len(keys) |->
     [base_hash |-> keys[i],
      match_prob |-> IF c \in DOMAIN h[keys[i]].prob
                     THEN h[keys[i]].prob[c] ELSE 0,
      certs |-> h[keys[i]].levels[1]]]

\* find_dupes without its test "cert in results.keys()"
find_dupes_any(h, keys, c) ==
  LET RECURSIVE go(_)
      go(i) ==
        IF i > Len(keys) THEN <<>>
        ELSE <<[base_hash |-> keys[i],
                match_prob |-> IF c \in DOMAIN h[keys[i]].prob
                               THEN h[keys[i]].prob[c] ELSE 0,
                certs |-> h[keys[i]].levels[1]]>> \o go(i + 1)
  IN  SortByProb(go(1))

\* Collection.find_dupes
find_dupes(h, keys, c) ==
  LET RECURSIVE go(_)
      go(i) ==
        IF i > Len(keys) THEN <<>>
        ELSE (IF c \in DOMAIN h[keys[i]].prob
              THEN <<[base_hash |-> keys[i],
                      match_prob |-> h[keys[i]].prob[c],
                      certs |-> h[keys[i]].levels[1]]>>
              ELSE <<>>) \o go(i + 1)
  IN  SortByProb(go(1))

(***************************************************************************)
(* The valuation engine.                                                   *)
(***************************************************************************)
RECURSIVE Pow(_, _)
Pow(b, n) == IF n = 0 THEN 1 ELSE b * Pow(b, n - 1)

\* a grade as it is, 10 too
PlainGrade(g) == g

\* multipliers["pseudo_10"]: a grade 10 counts as 11
PseudoGrade(g) == IF g = 10 THEN 11 ELSE g

\* weightings[website_status], in hundredths
SourceWeight(website, status) ==
  IF website = "ebay" THEN (IF status = "selling" THEN 100 ELSE 120)
  ELSE (IF status = "selling" THEN 125 ELSE 150)

\* Price._get_scale_factor: <<multiplier, weighting>>, the multiplier
\* 1.1 * (10 if signed) * 0.7^(grade - card_grade) as its two factors:
\* tenths / 10 * 0.7^exp
_get_scale_factor(card, website, status, grade) ==
  LET base == SourceWeight(website, status)
      weighting == IF card.grade = grade THEN (base * 12) \div 10 ELSE base
      signed == IF card.sign # "NONE" THEN 10 ELSE 1
      d == PseudoGrade(grade) - PseudoGrade(card.grade)
  IN  <<[tenths |-> 11 * signed, exp |-> d], weighting>>

\* a multiplier m as the rational Num(m) / Den(m)
Num(m) == m.tenths * (IF m.exp >= 0 THEN Pow(7, m.exp) ELSE Pow(10, -m.exp))
Den(m) == 10 * (IF m.exp >= 0 THEN Pow(10, m.exp) ELSE Pow(7, -m.exp))

\* one element of pricing_data: (price, scale_factor, weight, grade)
PricingEntry(card, s, price, grade) ==
  LET sf == _get_scale_factor(card, Slots[s][1], Slots[s][2], grade)
  IN  <<price, sf[1], sf[2], grade>>

\* the loops of _set_from_other_cert: pricing_data of `card` from the
\* observations `medium` of the other card
PricingFrom(card, medium) ==
  LET RECURSIVE go(_)
      go(s) ==
        IF s > Len(Slots) THEN <<>>
        ELSE [i \in 1..Len(medium[s]) |->
                PricingEntry(card, s, medium[s][i].price, medium[s][i].grade)]
             \o go(s + 1)
  IN  go(1)

RECURSIVE Sum(_)
Sum(s) == IF s = <<>> THEN 0 ELSE Head(s) + Sum(Tail(s))

Abs(x) == IF x < 0 THEN -x ELSE x

RECURSIVE SqrtIn(_, _, _)
SqrtIn(n, lo, hi) ==
  IF lo = hi THEN lo
  ELSE LET mid == (lo + hi + 1) \div 2
       IN  IF mid * mid <= n THEN SqrtIn(n, mid, hi) ELSE SqrtIn(n, lo, mid - 1)

\* np.std's square root, rounded down
ISqrt(n) == SqrtIn(n, 0, 46340)

\* scaled_prices = original_price * original_scale, in tenths of a JPY
ScaledPrices(pd) ==
  [i \in 1..Len(pd) |-> (pd[i][1] * 10 * Num(pd[i][2])) \div Den(pd[i][2])]

\* std_weights that drop an observation farther than one deviation from
\* the mean
StdWeightsCutOff(scaled) ==
  LET n == Len(scaled)
      mean == Sum(scaled) \div n
      var == Sum([i \in 1..n |-> (scaled[i] - mean) * (scaled[i] - mean)]) \div n
      std == ISqrt(var)
  IN  [i \in 1..n |->
         IF std = 0 \/ Abs(scaled[i] - mean) <= std THEN 1000 ELSE 0]

\* std_weights, in thousandths: 1 / clip(|x - mean| / std, 1, 1000), and 1
\* for every observation when std < 1e-5
StdWeights(scaled) ==
  LET n == Len(scaled)
      mean == Sum(scaled) \div n
      var == Sum([i \in 1..n |-> (scaled[i] - mean) * (scaled[i] - mean)]) \div n
      std == ISqrt(var)
  IN  [i \in 1..n |->
         LET a == Abs(scaled[i] - mean)
         IN  IF std = 0 \/ a <= std THEN 1000
             ELSE IF a >= 1000 * std THEN 1
             ELSE (1000 * std) \div a]

\* weights_to_use = std_weights * original_weights
FinalWeights(pd) ==
  LET sw == StdWeights(ScaledPrices(pd))
  IN  [i \in 1..Len(pd) |-> sw[i] * pd[i][3]]

\* scaled_avg_price = int(sum(scaled_prices * weights) / sum(weights))
ScaledAvgPrice(pd) ==
  LET scaled == ScaledPrices(pd)
      w == FinalWeights(pd)
  IN  (Sum([i \in 1..Len(pd) |-> scaled[i] * w[i]]) \div Sum(w)) \div 10

(***************************************************************************)
(* The card store's update.                                                *)
(***************************************************************************)
\* the card as update() stores it: without its year
Stored(card) == [f \in (DOMAIN card) \ {"year"} |-> card[f]]

\* Collection.get(cert)["year"] after update(cert, card): updated_card is the
\* object held by Collection.data, and update() sets its year to None
YearAfterUpdate(card) == "NONE"

\* Collection.update(c, card): the new Collection.data
UpdatedData(d, c, card) == [d EXCEPT ![c] = [card EXCEPT !.year = YearAfterUpdate(card)]]

\* Collection.update(c, card): the new Collection._data, which is written to
\* collection.json
UpdatedRaw(raw, c, card) ==
  [raw EXCEPT ![card.year] = (c :> Stored(card)) @@ @]

\* Stats.calculate raises ValueError (max of an empty list) when no card of
\* its collection has a selling price
StatsFails(sd) == \A c \in DOMAIN sd : sd[c].price = 0

(***************************************************************************)
(* A command: Price(cert, recalculate, copy_cert).act()                    *)
(***************************************************************************)
CanStart == pc \in {"idle", "done"} /\ runs < MaxRuns

\* Price.__init__: Collection() and Stats() load collection.json
Construct(m, c, other, ms) ==
  /\ _data' = disk
  /\ data' = _flatten_data(disk)
  /\ hash' = _organise(disk)
  /\ stats_data' = data'
  /\ mode' = m
  /\ cert' = c
  /\ copy_cert' = other
  /\ runs' = runs + 1
  /\ today' = runs + 1
  /\ slot' = 1
  /\ okay' = ""
  /\ writes' = <<>>
  /\ matches' = ms
  /\ out' = ""
  /\ UNCHANGED <<disk, entered, elsewhere>>

NoPricing ==
  /\ pricing_data' = <<>>
  /\ prices_dict' = EmptyMedium
  /\ price_changed' = FALSE
  /\ avg_price' = 0

Raise(e) == err' = e /\ pc' = "done"

\* Price._calculate on pricing data pd, then the start of Price._save: the
\* run is over when the price did not change, and stops at the save prompt
\* otherwise
_calculate(card, pd) ==
  IF pd = <<>>
  THEN Raise("ZeroDivisionError") /\ price_changed' = FALSE /\ avg_price' = 0
  ELSE LET scaled_avg_price == ScaledAvgPrice(pd)
       IN  IF scaled_avg_price = card.price
           THEN /\ price_changed' = FALSE
                /\ avg_price' = 0
                /\ pc' = "done"
                /\ err' = "none"
           ELSE /\ price_changed' = TRUE
                /\ avg_price' = scaled_avg_price
                /\ pc' = "save"
                /\ err' = "none"

\* act() without recalculate and without copy_cert: _set_from_sales_data up
\* to its first prompt
StartFresh(c) ==
  /\ CanStart
  /\ Construct("fresh", c, "NONE", <<>>)
  /\ NoPricing
  /\ IF c \notin DOMAIN data' THEN Raise("KeyError")
     ELSE /\ err' = "none"
          /\ pc' = IF data'[c].price > 0 THEN "overwrite" ELSE "collect"

\* act() without recalculate and without a cert
StartNoCert ==
  /\ CanStart
  /\ Construct("fresh", "NONE", "NONE", <<>>)
  /\ NoPricing
  /\ Raise("Cert must be passed.")

\* "Are you sure you want to overwrite the price? [Y/n]"
AnswerOverwrite(a) ==
  /\ pc = "overwrite"
  /\ IF a = "y" THEN pc' = "collect" /\ err' = err ELSE Raise("Ending.")
  /\ UNCHANGED <<elsewhere, out, disk, _data, data, hash, stats_data, mode, cert,
                 copy_cert, slot,
                 pricing_data, prices_dict, price_changed, avg_price, okay,
                 writes, today, runs, entered, matches>>

\* _collect_prices without its test "if not prices"
FinishCollectUnchecked ==
  /\ _calculate(data[cert], pricing_data)
  /\ out' = ""
  /\ UNCHANGED <<elsewhere, disk, _data, data, hash, stats_data, mode, cert, copy_cert, slot,
                 pricing_data, prices_dict, okay, writes, today, runs,
                 entered, matches>>

\* the end of _collect_prices, after its loops
FinishCollect ==
  /\ IF pricing_data = <<>>
     THEN Raise("No prices were added.") /\ UNCHANGED <<price_changed, avg_price>>
     ELSE _calculate(data[cert], pricing_data)
  /\ out' = ""
  /\ UNCHANGED <<elsewhere, disk, _data, data, hash, stats_data, mode, cert, copy_cert, slot,
                 pricing_data, prices_dict, okay, writes, today, runs,
                 entered, matches>>

\* input "c": skip to the next website/status
InputSkip ==
  /\ pc = "collect"
  /\ IF slot < Len(Slots)
     THEN /\ slot' = slot + 1
          /\ out' = ""
          /\ UNCHANGED <<elsewhere, disk, _data, data, hash, stats_data, pc, mode, cert, copy_cert,
                         pricing_data, prices_dict, price_changed, avg_price,
                         okay, err, writes, today, runs, entered, matches>>
     ELSE FinishCollect

\* input "e": finish
InputEnd ==
  /\ pc = "collect"
  /\ FinishCollect

\* input "q": quit
InputQuit ==
  /\ pc = "collect"
  /\ Raise("Quit.")
  /\ out' = ""
  /\ UNCHANGED <<elsewhere, disk, _data, data, hash, stats_data, mode, cert, copy_cert, slot,
                 pricing_data, prices_dict, price_changed, avg_price, okay,
                 writes, today, runs, entered, matches>>

\* an input that is not two comma separated integers: the ValueError is
\* printed and the prompt comes again
InputMalformed ==
  /\ pc = "collect"
  /\ out' = "ValueError"
  /\ UNCHANGED but_out

\* input "price,grade" logged without the tests of grade and price
InputEntryUnchecked(price, grade) ==
  /\ pc = "collect"
  /\ entered < MaxObs
  /\ pricing_data' = Append(pricing_data,
                            PricingEntry(data[cert], slot, price, grade))
  /\ prices_dict' = [prices_dict EXCEPT
                       ![slot] = Append(@, [price |-> price, grade |-> grade])]
  /\ entered' = entered + 1
  /\ out' = ""
  /\ UNCHANGED <<elsewhere, disk, _data, data, hash, stats_data, pc, mode, cert,
                 copy_cert, slot, price_changed, avg_price, okay, err, writes,
                 today, runs, matches>>

\* input "price,grade"
InputEntry(price, grade) ==
  /\ pc = "collect"
  /\ IF ~(1 <= grade /\ grade <= 10) \/ price <= 0
     THEN /\ out' = IF ~(1 <= grade /\ grade <= 10)
                    THEN "Grade must be between [1, 10]"
                    ELSE "Price must be greater than 0"
          /\ UNCHANGED but_out
     ELSE /\ entered < MaxObs
          /\ out' = ""
          /\ pricing_data' = Append(pricing_data,
                                    PricingEntry(data[cert], slot, price, grade))
          /\ prices_dict' = [prices_dict EXCEPT
                               ![slot] = Append(@, [price |-> price, grade |-> grade])]
          /\ entered' = entered + 1
          /\ UNCHANGED <<elsewhere, disk, _data, data, hash, stats_data, pc, mode, cert, copy_cert,
                         slot, price_changed, avg_price, okay, err, writes,
                         today, runs, matches>>

\* act() with a cert and a copy_cert: act() reads self.copy_sert, which no
\* Price object has
StartCopy(c, other) ==
  /\ CanStart
  /\ Construct("copy", c, other, <<>>)
  /\ NoPricing
  /\ IF c \notin DOMAIN data' THEN Raise("KeyError") ELSE Raise("AttributeError")

\* act() with recalculate and a cert: _recalculate_cert
StartRecalc(c) ==
  /\ CanStart
  /\ Construct("recalc", c, "NONE", <<>>)
  /\ IF c \notin DOMAIN data' THEN NoPricing /\ Raise("KeyError")
     ELSE IF data'[c].avg_price = 0
     THEN NoPricing /\ Raise("CardNoSalesDataException")
     ELSE /\ pricing_data' = PricingFrom(data'[c], data'[c].medium)
          /\ prices_dict' = data'[c].medium
          /\ _calculate(data'[c], pricing_data')

\* act() with recalculate and no cert: _recalculate_all_certs calls
\* Collection.get_next_card, which Collection does not define
StartRecalcAll ==
  /\ CanStart
  /\ Construct("recalc_all", "NONE", "NONE", <<>>)
  /\ NoPricing
  /\ Raise("AttributeError")

\* the card _save hands to Collection.update after answer a
SavedCard(card, a) ==
  [card EXCEPT !.medium = prices_dict,
               !.avg_price = avg_price,
               !.last_updated = today,
               !.price = IF a = "y" THEN avg_price ELSE @]

\* _save with its test for "q" after the call of Collection.update
AnswerSaveThenQuit(a) ==
  /\ pc = "save"
  /\ okay' = a
  /\ LET card == SavedCard(data[cert], a)
     IN  /\ data' = UpdatedData(data, cert, card)
         /\ _data' = UpdatedRaw(_data, cert, card)
         /\ disk' = UpdatedRaw(_data, cert, card)
         /\ writes' = Append(writes, cert)
         /\ pc' = "done"
         /\ err' = IF a = "q" THEN "Ending, no sales data was saved."
                   ELSE IF StatsFails(stats_data) THEN "ValueError" ELSE "none"
  /\ UNCHANGED <<elsewhere, out, hash, stats_data, mode, cert, copy_cert, slot, pricing_data,
                 prices_dict, price_changed, avg_price, today, runs, entered,
                 matches>>

\* Price._save from its prompt on: "is this okay to set? [Y/n] ('q' to quit
\* and save nothing)"
AnswerSave(a) ==
  /\ pc = "save"
  /\ okay' = a
  /\ IF a = "q"
     THEN /\ Raise("Ending, no sales data was saved.")
          /\ UNCHANGED <<disk, _data, data, writes>>
     ELSE LET card == SavedCard(data[cert], a)
          IN  IF card.year = "NONE"
              THEN /\ data' = [data EXCEPT ![cert] = card]
                   /\ Raise("KeyError")
                   /\ UNCHANGED <<disk, _data, writes>>
              ELSE /\ data' = UpdatedData(data, cert, card)
                   /\ _data' = UpdatedRaw(_data, cert, card)
                   /\ disk' = UpdatedRaw(_data, cert, card)
                   /\ writes' = Append(writes, cert)
                   /\ pc' = "done"
                   /\ err' = IF StatsFails(stats_data) THEN "ValueError" ELSE "none"
  /\ UNCHANGED <<elsewhere, out, hash, stats_data, mode, cert, copy_cert, slot, pricing_data,
                 prices_dict, price_changed, avg_price, today, runs, entered,
                 matches>>

(***************************************************************************)
(* The valuation command, run again and again on one collection.           *)
(***************************************************************************)
\* the grade and signature of card 101 in the collections valued
ValuedKinds == {<<9, "NONE">>, <<10, "True">>}

ValuedCard(g, s) == [BlankCard EXCEPT !.pkmn = "25", !.grade = g, !.sign = s]

Init ==
  /\ \E k \in ValuedKinds :
       disk = [y \in {"1999", "2000"} |->
                 IF y = "1999" THEN ("101" :> ValuedCard(k[1], k[2]))
                 ELSE ("102" :> ValuedCard(10, "NONE"))]
  /\ _data = <<>>
  /\ data = <<>>
  /\ hash = <<>>
  /\ stats_data = <<>>
  /\ pc = "idle"
  /\ mode = "none"
  /\ cert = "NONE"
  /\ copy_cert = "NONE"
  /\ slot = 1
  /\ pricing_data = <<>>
  /\ prices_dict = EmptyMedium
  /\ price_changed = FALSE
  /\ avg_price = 0
  /\ okay = ""
  /\ err = "none"
  /\ writes = <<>>
  /\ today = 0
  /\ runs = 0
  /\ entered = 0
  /\ matches = <<>>
  /\ out = ""
  /\ default = DefaultKeys
  /\ set_prices = EmptySetPrices
  /\ arg = <<>>
  /\ ret = <<>>

Next ==
  \/ \E c \in CertsOf(disk) \cup {UnknownCert} : StartFresh(c)
  \/ StartNoCert
  \/ \E a \in {"y", "n"} : AnswerOverwrite(a)
  \/ InputSkip
  \/ InputEnd
  \/ InputQuit
  \/ InputMalformed
  \/ \E price \in Prices \cup {0} : \E grade \in Grades \cup {11} :
       InputEntry(price, grade)
  \/ \E c \in CertsOf(disk) \cup {UnknownCert} : \E other \in CertsOf(disk) :
       StartCopy(c, other)
  \/ \E c \in CertsOf(disk) \cup {UnknownCert} : StartRecalc(c)
  \/ StartRecalcAll
  \/ \E a \in {"y", "n", "q"} : AnswerSave(a)

Spec == Init /\ [][Next]_vars

(***************************************************************************)
(* The equivalence index queried: collection.py run as a script builds a   *)
(* Collection and calls find_dupes.                                        *)
(***************************************************************************)
FindDupes(c) ==
  /\ CanStart
  /\ Construct("find", c, "NONE", find_dupes(_organise(disk), HashKeys(disk), c))
  /\ NoPricing
  /\ err' = "none"
  /\ pc' = "done"

IndexedCard(st, fl, g) ==
  [BlankCard EXCEPT !.pkmn = "25", !.set = st, !.flags = fl, !.grade = g]

IndexSets == {"NONE", "base"}
IndexFlags == {<<>>, ("1st" :> "True")}
IndexYears == {"1999", "2000"}

InitIndex ==
  /\ \E y2, y3 \in IndexYears : \E s1, s2, s3 \in IndexSets :
     \E f1, f2 \in IndexFlags : \E g1, g2 \in Grades :
       LET yr == ("101" :> "1999") @@ ("102" :> y2) @@ ("103" :> y3)
           cards == ("101" :> IndexedCard(s1, f1, g1))
                    @@ ("102" :> IndexedCard(s2, f2, g2))
                    @@ ("103" :> IndexedCard(s3, <<>>, 10))
       IN  disk = [y \in IndexYears |->
                     [c \in {c \in DOMAIN yr : yr[c] = y} |-> cards[c]]]
  /\ _data = <<>>
  /\ data = <<>>
  /\ hash = <<>>
  /\ stats_data = <<>>
  /\ pc = "idle"
  /\ mode = "none"
  /\ cert = "NONE"
  /\ copy_cert = "NONE"
  /\ slot = 1
  /\ pricing_data = <<>>
  /\ prices_dict = EmptyMedium
  /\ price_changed = FALSE
  /\ avg_price = 0
  /\ okay = ""
  /\ err = "none"
  /\ writes = <<>>
  /\ today = 0
  /\ runs = 0
  /\ entered = 0
  /\ matches = <<>>
  /\ out = ""
  /\ default = DefaultKeys
  /\ set_prices = EmptySetPrices
  /\ arg = <<>>
  /\ ret = <<>>

NextIndex == \E c \in CertsOf(disk) \cup {UnknownCert} : FindDupes(c)

SpecIndex == InitIndex /\ [][NextIndex]_vars

(***************************************************************************)
(* Loading the card store: Collection().                                   *)
(***************************************************************************)
\* Sets.__members__
SetsMembers == {"base"}

\* the keys of a card as collection.json gives it
SuppliedKeys(card) ==
  {f \in {"language", "pkmn", "energy", "trainer", "set", "notes", "sign"} :
     card[f] # "NONE"}
  \cup (IF card.grade # 0 THEN {"grade"} ELSE {})
  \cup DOMAIN card.flags
  \cup ((DOMAIN card) \ DOMAIN BlankCard)
  \cup (IF card.price # 0 THEN {"selling"} ELSE {})
  \cup (IF card.avg_price # 0 THEN {"sales_data"} ELSE {})

\* Collection._validate_card on the card merged into the defaults: the
\* message of the exception it raises, or "none"
_validate_card(psa, card, def) ==
  LET valid_keys == def \cup {"year"}
      supplied_keys == def \cup SuppliedKeys(card) \cup {"year"}
  IN  IF supplied_keys \ valid_keys # {}
      THEN "Card " \o psa \o " has at least one invalid entry"
      ELSE IF {"grade"} \ supplied_keys # {}
      THEN "Card " \o psa \o " did not supply required entries"
      ELSE IF card.set # "NONE" /\ card.set \notin SetsMembers
      THEN "Card " \o psa \o " does not have a valid set"
      ELSE "none"

\* Collection.validate: the first exception of _validate_card over the
\* cards in the order of Collection.data
validate(d, def) ==
  LET vs == Visits(d)
      RECURSIVE go(_)
      go(i) ==
        IF i > Len(vs) THEN "none"
        ELSE LET e == _validate_card(vs[i][2], d[vs[i][1]][vs[i][2]], def)
             IN  IF e # "none" THEN e ELSE go(i + 1)
  IN  go(1)

\* Collection.__init__
CollectionInit ==
  /\ pc = "idle"
  /\ pc' = "done"
  /\ mode' = "load"
  /\ _data' = disk
  /\ IF FlattenFails(disk)
     THEN /\ err' = "Keys appeared more than once."
          /\ data' = <<>>
          /\ hash' = <<>>
     ELSE /\ data' = _flatten_data(disk)
          /\ hash' = _organise(disk)
          /\ err' = validate(disk, default)
  /\ UNCHANGED <<elsewhere, out, disk, stats_data, cert, copy_cert, slot,
                 pricing_data, prices_dict, price_changed, avg_price, okay,
                 writes, today, runs, entered, matches>>

\* a card of the collections loaded: a grade or none, a set, a key that
\* default.json does not have
LoadedCard(g, st, extra) ==
  IF extra THEN [colour |-> "red"] @@ [BlankCard EXCEPT !.pkmn = "25", !.grade = g, !.set = st]
  ELSE [BlankCard EXCEPT !.pkmn = "25", !.grade = g, !.set = st]

LoadSets == {"NONE", "base", "bogus"}

InitLoad ==
  /\ \E g1, g2 \in {0, 9} : \E s1 \in LoadSets : \E x1, twice \in BOOLEAN :
     \E y2 \in IndexYears :
       LET c1 == LoadedCard(g1, s1, x1)
           c2 == LoadedCard(g2, "NONE", FALSE)
           once == [y \in IndexYears |->
                      IF y = "1999" THEN ("101" :> c1) ELSE <<>>]
       IN  disk = [once EXCEPT
                     ![y2] = (IF twice THEN "101" ELSE "102") :> c2 @@ @]
  /\ default \in {DefaultKeys, DefaultKeys \ {"grade"}}
  /\ _data = <<>>
  /\ data = <<>>
  /\ hash = <<>>
  /\ stats_data = <<>>
  /\ pc = "idle"
  /\ mode = "none"
  /\ cert = "NONE"
  /\ copy_cert = "NONE"
  /\ slot = 1
  /\ pricing_data = <<>>
  /\ prices_dict = EmptyMedium
  /\ price_changed = FALSE
  /\ avg_price = 0
  /\ okay = ""
  /\ err = "none"
  /\ writes = <<>>
  /\ today = 0
  /\ runs = 0
  /\ entered = 0
  /\ matches = <<>>
  /\ out = ""
  /\ set_prices = EmptySetPrices
  /\ arg = <<>>
  /\ ret = <<>>

NextLoad == CollectionInit

SpecLoad == InitLoad /\ [][NextLoad]_vars

(***************************************************************************)
(* The scale factor of one observation: Price._get_scale_factor on every   *)
(* card grade, signature, venue, status and observation grade.             *)
(***************************************************************************)
\* self.card of the Price object the function is called on
ScaledCard == [BlankCard EXCEPT !.grade = arg.card_grade, !.sign = arg.sign]

GetScaleFactor ==
  /\ pc = "idle"
  /\ pc' = "done"
  /\ mode' = "scale"
  /\ ret' = _get_scale_factor(ScaledCard, Slots[arg.slot][1], Slots[arg.slot][2],
                              arg.grade)
  /\ UNCHANGED <<default, set_prices, arg, out, disk, _data, data, hash,
                 stats_data, cert, copy_cert, slot, pricing_data, prices_dict,
                 price_changed, avg_price, okay, err, writes, today, runs,
                 entered, matches>>

InitScale ==
  /\ arg \in [card_grade : 1..10, sign : Signs, slot : 1..Len(Slots), grade : 1..10]
  /\ ret = <<>>
  /\ disk = <<>>
  /\ default = DefaultKeys
  /\ _data = <<>>
  /\ data = <<>>
  /\ hash = <<>>
  /\ stats_data = <<>>
  /\ pc = "idle"
  /\ mode = "none"
  /\ cert = "NONE"
  /\ copy_cert = "NONE"
  /\ slot = 1
  /\ pricing_data = <<>>
  /\ prices_dict = EmptyMedium
  /\ price_changed = FALSE
  /\ avg_price = 0
  /\ okay = ""
  /\ err = "none"
  /\ writes = <<>>
  /\ today = 0
  /\ runs = 0
  /\ entered = 0
  /\ matches = <<>>
  /\ out = ""
  /\ set_prices = EmptySetPrices

NextScale == GetScaleFactor

SpecScale == InitScale /\ [][NextScale]_vars

(***************************************************************************)
(* The estimate of one observation list: the arithmetic of                 *)
(* Price._calculate on pricing data built by _get_scale_factor.            *)
(***************************************************************************)
\* the prices, grades and venue/status pairs of the observations studied
CalcPrices == {1, 10}
CalcGrades == {9, 10}
CalcSlots == {1, Len(Slots)}

\* self.pricing_data for the observations of arg
CalcPricing ==
  [i \in 1..Len(arg.obs) |->
     PricingEntry(ScaledCard, arg.obs[i].slot, arg.obs[i].price, arg.obs[i].grade)]

\* Price._calculate up to scaled_avg_price
Calculate ==
  /\ pc = "idle"
  /\ pc' = "done"
  /\ mode' = "calc"
  /\ pricing_data' = CalcPricing
  /\ LET scaled == ScaledPrices(CalcPricing)
         w == FinalWeights(CalcPricing)
     IN  ret' = [scaled_prices |-> scaled,
                 weights_to_use |-> w,
                 total |-> Sum([i \in 1..Len(w) |-> scaled[i] * w[i]]),
                 scaled_avg_price |-> ScaledAvgPrice(CalcPricing)]
  /\ UNCHANGED <<default, set_prices, arg, out, disk, _data, data, hash,
                 stats_data, cert, copy_cert, slot, prices_dict,
                 price_changed, avg_price, okay, err, writes, today, runs,
                 entered, matches>>

InitCalc ==
  /\ \E g \in CalcGrades : \E sg \in Signs : \E n \in 1..MaxList :
     \E obs \in [1..n -> [slot : CalcSlots, price : CalcPrices, grade : CalcGrades]] :
       arg = [card_grade |-> g, sign |-> sg, obs |-> obs]
  /\ ret = <<>>
  /\ disk = <<>>
  /\ default = DefaultKeys
  /\ _data = <<>>
  /\ data = <<>>
  /\ hash = <<>>
  /\ stats_data = <<>>
  /\ pc = "idle"
  /\ mode = "none"
  /\ cert = "NONE"
  /\ copy_cert = "NONE"
  /\ slot = 1
  /\ pricing_data = <<>>
  /\ prices_dict = EmptyMedium
  /\ price_changed = FALSE
  /\ avg_price = 0
  /\ okay = ""
  /\ err = "none"
  /\ writes = <<>>
  /\ today = 0
  /\ runs = 0
  /\ entered = 0
  /\ matches = <<>>
  /\ out = ""
  /\ set_prices = EmptySetPrices

NextCalc == Calculate

SpecCalc == InitCalc /\ [][NextCalc]_vars

(***************************************************************************)
(* The set-bundle store: SetPrice(cert, certs, set, delete_set), each      *)
(* command loading set_prices.json and writing it back.                    *)
(***************************************************************************)
\* int(id) of an id written by str()
IdInt(id) == CHOOSE n \in 0..(MaxSetId + 1) : ToString(n) = id

\* the lists that hold each element of S once: list(set_data)
Perms(S) ==
  {f \in [1..Cardinality(S) -> S] : \A i, j \in 1..Cardinality(S) : f[i] = f[j] => i = j}

\* SetPrice._validate_params for certs: the message of its exception
_validate_params(certs) ==
  IF Cardinality(Range(certs)) # Len(certs) THEN "Your set has repeated cards."
  ELSE IF Len(certs) < 2 THEN "A set must have at least two cards!"
  ELSE "none"

\* SetPrice._get_cards: the message of its exception
_get_cards(cards, certs) ==
  IF \E i \in 1..Len(certs) : certs[i] \notin DOMAIN cards
  THEN "One or more cert numbers were invalid"
  ELSE IF \E i \in 1..Len(certs) : cards[certs[i]].price = 0
  THEN "You have not yet set a price"
  ELSE "none"

\* SetPrice._get_set_from_certs: the id of a set with these certs, found
\* through the list of the first cert, or "NONE"
_get_set_from_certs(d, certs) ==
  IF certs[1] \notin DOMAIN d.certs THEN "NONE"
  ELSE LET ids == d.certs[certs[1]]
           hit == {i \in 1..Len(ids) : Range(d.sets[ids[i]].certs) = Range(certs)}
       IN  IF hit = {} THEN "NONE"
           ELSE ids[CHOOSE i \in hit : \A j \in hit : i <= j]

\* SetPrice._calculate_set_price: 1% off per additional card, at most 10
\* times, rounded down to a multiple of 100
_calculate_set_price(cards, certs) ==
  LET original_price == Sum([i \in 1..Len(certs) |-> cards[certs[i]].price])
      k == IF Len(certs) - 1 < 10 THEN Len(certs) - 1 ELSE 10
  IN  ((original_price * Pow(99, k)) \div (Pow(100, k) * 100)) * 100

\* the per-cert lists left as they are
CertsKept(d, id) == {d.certs}

\* the per-cert lists _set_flow may leave on deleting set id: the id is
\* taken out of the list of every cert of the set, a list left empty is
\* deleted, and a list rebuilt from a set has any order
CertsWithout(d, id) ==
  LET affected == Range(d.sets[id].certs) \cap DOMAIN d.certs
      left(c) == Range(d.certs[c]) \ {id}
      keep == {c \in DOMAIN d.certs : c \notin affected \/ left(c) # {}}
      lists == UNION {Perms(left(c)) \cup {d.certs[c]} : c \in DOMAIN d.certs}
  IN  {f \in [keep -> lists] :
         \A c \in keep : IF c \in affected THEN f[c] \in Perms(left(c))
                         ELSE f[c] = d.certs[c]}

\* what a SetPrice command leaves alone
SetPriceFrame ==
  UNCHANGED <<default, arg, ret, out, disk, _data, data, hash, stats_data, cert,
              copy_cert, slot, pricing_data, prices_dict, price_changed,
              avg_price, writes, today, runs, entered, matches>>

\* SetPrice(certs=certs), the answer a given to "Do you want to log this
\* set? [Y/n]"
MakeSet(certs, a) ==
  /\ IdInt(set_prices.next_autoincrement_id) <= MaxSetId
  /\ mode' = "make_set"
  /\ pc' = "done"
  /\ LET cards == _flatten_data(disk)
         d == set_prices
         set_id == d.next_autoincrement_id
         made == [certs |-> certs, price |-> _calculate_set_price(cards, certs)]
         fail(e) == err' = e /\ okay' = "" /\ set_prices' = set_prices
     IN  IF _validate_params(certs) # "none" THEN fail(_validate_params(certs))
         ELSE IF _get_cards(cards, certs) # "none" THEN fail(_get_cards(cards, certs))
         ELSE IF _get_set_from_certs(d, certs) # "NONE"
         THEN fail("This set already exists")
         ELSE /\ okay' = a
              /\ IF a # "Y" THEN err' = "none" /\ set_prices' = set_prices
                 ELSE IF set_id \in DOMAIN d.sets
                 THEN err' = "Next autoincrement ID is already in use."
                      /\ set_prices' = set_prices
                 ELSE /\ err' = "none"
                      /\ set_prices' =
                           [next_autoincrement_id |-> ToString(IdInt(set_id) + 1),
                            sets |-> (set_id :> made) @@ d.sets,
                            certs |->
                              [c \in DOMAIN d.certs \cup Range(certs) |->
                                 IF c \notin Range(certs) THEN d.certs[c]
                                 ELSE IF c \in DOMAIN d.certs
                                 THEN Append(d.certs[c], set_id)
                                 ELSE <<set_id>>]]
  /\ SetPriceFrame

\* SetPrice(set=id, delete_set=del), the answer a given to "Are you sure
\* you want to delete this set? [Y/n]"
SetFlow(id, del, a) ==
  /\ mode' = "set"
  /\ pc' = "done"
  /\ LET d == set_prices
     IN  IF id \notin DOMAIN d.sets
         THEN err' = "Set does not exist." /\ okay' = "" /\ set_prices' = set_prices
         ELSE /\ err' = "none"
              /\ okay' = IF del THEN a ELSE ""
              /\ IF del /\ a = "Y"
                 THEN \E cs \in CertsWithout(d, id) :
                        set_prices' =
                          [d EXCEPT !.certs = cs,
                                    !.sets = [i \in (DOMAIN d.sets) \ {id} |-> d.sets[i]]]
                 ELSE set_prices' = set_prices
  /\ SetPriceFrame

\* SetPrice(cert=c): the sets of the cert are listed with their prices
\* computed again, and a, the answer to "Would you like to update the sets
\* to their new prices? [Y/n]", writes the prices that changed unless it
\* is empty
SingleCertFlow(c, a) ==
  /\ mode' = "single"
  /\ pc' = "done"
  /\ LET cards == _flatten_data(disk)
         d == set_prices
         fail(e) == err' = e /\ okay' = "" /\ set_prices' = set_prices
     IN  IF _get_cards(cards, <<c>>) # "none" THEN fail(_get_cards(cards, <<c>>))
         ELSE IF c \notin DOMAIN d.certs
         THEN fail("Card is not currently being sold in any sets.")
         ELSE LET new_price(id) == _calculate_set_price(cards, d.sets[id].certs)
                  to_update == {id \in Range(d.certs[c]) :
                                  new_price(id) # d.sets[id].price}
              IN  /\ err' = "none"
                  /\ okay' = IF to_update # {} THEN a ELSE ""
                  /\ set_prices' =
                       [d EXCEPT !.sets =
                          [id \in DOMAIN d.sets |->
                             IF id \in to_update /\ a # ""
                             THEN [d.sets[id] EXCEPT !.price = new_price(id)]
                             ELSE d.sets[id]]]
  /\ SetPriceFrame

\* a card of the collection the sets are made from
PricedCard(p) == [BlankCard EXCEPT !.pkmn = "25", !.grade = 9, !.price = p]

InitSets ==
  /\ disk = [y \in {"1999", "2000"} |->
               IF y = "1999"
               THEN ("101" :> PricedCard(10000)) @@ ("102" :> PricedCard(5000))
               ELSE ("103" :> PricedCard(300)) @@ ("104" :> PricedCard(0))]
  /\ set_prices = EmptySetPrices
  /\ arg = <<>>
  /\ ret = <<>>
  /\ default = DefaultKeys
  /\ _data = <<>>
  /\ data = <<>>
  /\ hash = <<>>
  /\ stats_data = <<>>
  /\ pc = "idle"
  /\ mode = "none"
  /\ cert = "NONE"
  /\ copy_cert = "NONE"
  /\ slot = 1
  /\ pricing_data = <<>>
  /\ prices_dict = EmptyMedium
  /\ price_changed = FALSE
  /\ avg_price = 0
  /\ okay = ""
  /\ err = "none"
  /\ writes = <<>>
  /\ today = 0
  /\ runs = 0
  /\ entered = 0
  /\ matches = <<>>
  /\ out = ""

\* the cert lists given to --certs: every list of one to three of the
\* priced cards, one with a card that has no price, one with a cert that
\* is not in the collection
CertLists ==
  UNION {[1..n -> {"101", "102", "103"}] : n \in 1..3}
  \cup {<<"101", "104">>, <<"101", UnknownCert>>}

NextSets ==
  \/ \E certs \in CertLists : \E a \in {"Y", "n"} : MakeSet(certs, a)
  \/ \E id \in {ToString(n) : n \in 1..(MaxSetId + 1)} : \E del \in BOOLEAN :
       \E a \in {"Y", "n"} : SetFlow(id, del, a)
  \/ \E c \in CertsOf(disk) \cup {UnknownCert} : \E a \in {"Y", ""} :
       SingleCertFlow(c, a)

SpecSets == InitSets /\ [][NextSets]_vars

(***************************************************************************)
(* One session of the card store: a Collection is made once, and cards     *)
(* got from it are priced and handed to its update one after another.      *)
(***************************************************************************)
\* the selling prices set in a session
StorePrices == {10, 20, 30, 40}

\* card = get(c); card["selling"]["price"] = p; update(c, card)
Update(c, p) ==
  /\ runs < MaxRuns
  /\ runs' = runs + 1
  /\ mode' = "update"
  /\ pc' = "done"
  /\ cert' = c
  /\ LET card == [data[c] EXCEPT !.price = p]
     IN  IF card.year = "NONE"
         THEN /\ err' = "KeyError"
              /\ data' = [data EXCEPT ![c] = card]
              /\ UNCHANGED <<disk, _data, writes>>
         ELSE /\ err' = "none"
              /\ data' = UpdatedData(data, c, card)
              /\ _data' = UpdatedRaw(_data, c, card)
              /\ disk' = UpdatedRaw(_data, c, card)
              /\ writes' = Append(writes, c)
  /\ UNCHANGED <<elsewhere, out, hash, stats_data, copy_cert, slot, pricing_data,
                 prices_dict, price_changed, avg_price, okay, today, entered,
                 matches>>

InitStore ==
  /\ disk = [y \in {"1999", "2000"} |->
               IF y = "1999"
               THEN ("101" :> ValuedCard(9, "NONE")) @@ ("102" :> ValuedCard(10, "NONE"))
               ELSE ("103" :> ValuedCard(10, "True"))]
  /\ _data = disk
  /\ data = _flatten_data(disk)
  /\ hash = _organise(disk)
  /\ stats_data = _flatten_data(disk)
  /\ pc = "idle"
  /\ mode = "none"
  /\ cert = "NONE"
  /\ copy_cert = "NONE"
  /\ slot = 1
  /\ pricing_data = <<>>
  /\ prices_dict = EmptyMedium
  /\ price_changed = FALSE
  /\ avg_price = 0
  /\ okay = ""
  /\ err = "none"
  /\ writes = <<>>
  /\ today = 0
  /\ runs = 0
  /\ entered = 0
  /\ matches = <<>>
  /\ out = ""
  /\ default = DefaultKeys
  /\ set_prices = EmptySetPrices
  /\ arg = <<>>
  /\ ret = <<>>

NextStore == \E c \in DOMAIN data : \E p \in StorePrices : Update(c, p)

SpecStore == InitStore /\ [][NextStore]_vars

(***************************************************************************)
(* Properties.                                                             *)
(***************************************************************************)
\* collection.json holds what it held when the command started
DiskUnchanged == _flatten_data(disk) = stats_data

\* the exceptions raised on the operator's "q"
QuitErrors == {"Quit.", "Ending, no sales data was saved."}

\* the level k key of a loaded card
KeyOf(c, k) == CardHash(data[c].year, _data[data[c].year][c], k)

\* two certs are in one list of level k
SameBucket(c1, c2, k) ==
  \E key \in DOMAIN hash :
    c1 \in Range(hash[key].levels[k]) /\ c2 \in Range(hash[key].levels[k])

\* C1: a recalculation of a card that holds the observations and the
\* average of an earlier valuation computes that average again, asks
\* nothing and writes nothing.
C1_RerunIsIdempotent ==
  (/\ mode = "recalc"
   /\ pc \in {"save", "done"}
   /\ err \notin {"KeyError", "CardNoSalesDataException"})
  => /\ ScaledAvgPrice(pricing_data) = stats_data[cert].avg_price
     /\ pc # "save"
     /\ writes = <<>>
     /\ DiskUnchanged

\* C2: a command ended by the operator's "q" has called Collection.update
\* for no card and has left collection.json as it was.
C2_QuitWritesNothing ==
  (pc = "done" /\ err \in QuitErrors) => (writes = <<>> /\ DiskUnchanged)

C2_Witness ==
  /\ pc = "done"
  /\ err = "Ending, no sales data was saved."
  /\ price_changed
  /\ pricing_data # <<>>

\* C3: a bulk recalculation over cards with and without a stored average
\* ends without an exception, leaves the cards without an average as they
\* were and has updated the cards with one whose price changed.
C3_BulkRunCompletes ==
  (/\ mode = "recalc_all"
   /\ pc = "done"
   /\ \E c \in DOMAIN stats_data : stats_data[c].avg_price = 0
   /\ \E c \in DOMAIN stats_data : stats_data[c].avg_price # 0)
  => /\ err = "none"
     /\ \A c \in DOMAIN stats_data :
          IF stats_data[c].avg_price = 0
          THEN c \notin Range(writes) /\ _flatten_data(disk)[c] = stats_data[c]
          ELSE ScaledAvgPrice(PricingFrom(stats_data[c], stats_data[c].medium))
                 # stats_data[c].price
               => c \in Range(writes)

\* C4: a copy-from-cert command on a card of the collection, from another
\* card that has observations, values the target: its pricing data are the
\* source's observations scaled by the target's grade and signature, and
\* no exception ends it before.
C4_CopyValuesTarget ==
  (/\ mode = "copy"
   /\ pc \in {"save", "done"}
   /\ cert \in DOMAIN data
   /\ copy_cert # cert
   /\ data[copy_cert].medium # EmptyMedium)
  => /\ err # "AttributeError"
     /\ pricing_data = PricingFrom(data[cert], data[copy_cert].medium)

\* C5: at every level two cards are in one list of the index exactly when
\* their keys of that level are equal.
C5_BucketsByOwnKey ==
  pc = "done" =>
    \A k \in 1..6 : \A c1, c2 \in DOMAIN data :
      SameBucket(c1, c2, k) <=> KeyOf(c1, k) = KeyOf(c2, k)

\* C6: a card's confidence is 1/6, plus 1/6 for each level L2..L6 at which
\* another card has the same key.
C6_ConfidenceCountsSharedLevels ==
  pc = "done" =>
    \A key \in DOMAIN hash : \A c \in DOMAIN hash[key].prob :
      hash[key].prob[c] =
        1 + Cardinality({k \in 2..6 :
              \E c2 \in DOMAIN data \ {c} : KeyOf(c2, k) = KeyOf(c, k)})

\* C7: every group find_dupes returns lists the queried cert among its
\* members.
C7_GroupsHoldQuery ==
  mode = "find" => \A i \in 1..Len(matches) : cert \in Range(matches[i].certs)

C7_Witness ==
  /\ mode = "find"
  /\ Len(matches) = 1
  /\ Len(matches[1].certs) = 2
  /\ Cardinality(DOMAIN hash) = 2

\* C8: find_dupes called with a cert that is not in the collection ends
\* with an exception.
C8_UnknownCertNotFound ==
  (mode = "find" /\ pc = "done" /\ cert \notin DOMAIN data) => err # "none"

\* the fields of a card that _save may rewrite
PriceFields == {"medium", "avg_price", "last_updated", "price"}

\* C9: once the save prompt is answered, the card is written only on an
\* answer other than "q", its selling price changes only on "y", and
\* every other field of the card and every other card are as they were
\* when the command started, in memory and in collection.json.
C9_SaveChangesPriceFieldsOnly ==
  (pc = "done" /\ okay # "")
  => /\ writes # <<>> => okay # "q"
     /\ _flatten_data(disk)[cert].price # stats_data[cert].price => okay = "y"
     /\ \A c \in DOMAIN data \ {cert} :
          data[c] = stats_data[c] /\ _flatten_data(disk)[c] = stats_data[c]
     /\ \A f \in (DOMAIN stats_data[cert]) \ PriceFields :
          /\ data[cert][f] = stats_data[cert][f]
          /\ _flatten_data(disk)[cert][f] = stats_data[cert][f]

\* C10: the step that ends a collection in which no observation was
\* entered, other than by "q", raises "No prices were added.", computes
\* no estimate and writes nothing.
C10_EmptyCollectionFails ==
  [][(/\ pc = "collect"
      /\ pricing_data = <<>>
      /\ pc' # "collect"
      /\ err' # "Quit.")
     => /\ pc' = "done"
        /\ err' = "No prices were added."
        /\ ~price_changed'
        /\ avg_price' = 0
        /\ writes' = <<>>
        /\ disk' = disk
        /\ _flatten_data(disk') = stats_data']_vars

C10_Witness ==
  /\ mode = "fresh"
  /\ pc = "done"
  /\ err = "No prices were added."
  /\ slot = Len(Slots)

\* a cert that collection.json lists under two years
ListedTwice(c) ==
  \E y1, y2 \in DOMAIN disk : y1 # y2 /\ c \in DOMAIN disk[y1] /\ c \in DOMAIN disk[y2]

\* C11: loading a collection in which a card has no grade, and nothing else
\* is wrong, ends with the exception "did not supply required entries"
\* naming such a card; after a load without exception every card has a
\* grade.
C11_MissingGradeRejected ==
  (/\ mode = "load"
   /\ pc = "done"
   /\ \A c \in CertsOf(disk) : ~ListedTwice(c)
   /\ \A y \in DOMAIN disk : \A c \in DOMAIN disk[y] :
        /\ SuppliedKeys(disk[y][c]) \subseteq DefaultKeys
        /\ disk[y][c].set \in SetsMembers \cup {"NONE"})
  => /\ (\E c \in DOMAIN data : data[c].grade = 0)
        => \E c \in DOMAIN data :
             /\ data[c].grade = 0
             /\ err = "Card " \o c \o " did not supply required entries"
     /\ err = "none" => \A c \in DOMAIN data : data[c].grade # 0

\* C12: loading a collection that lists a cert under two years ends with
\* the exception of _flatten_data and loads nothing; after a load without
\* exception every cert is under exactly one year, and Collection.data
\* holds it with that year.
C12_CertsUniqueAcrossYears ==
  (mode = "load" /\ pc = "done")
  => /\ (\E c \in CertsOf(disk) : ListedTwice(c))
        => (err = "Keys appeared more than once." /\ data = <<>>)
     /\ err = "none"
        => /\ DOMAIN data = CertsOf(disk)
           /\ \A c \in DOMAIN data :
                /\ ~ListedTwice(c)
                /\ data[c].year \in DOMAIN disk
                /\ c \in DOMAIN disk[data[c].year]

C12_Witness ==
  /\ mode = "load"
  /\ pc = "done"
  /\ ListedTwice("101")
  /\ err = "Keys appeared more than once."

\* C13: the multiplier of an observation is 1.1 * (10 if the card is
\* signed) * 0.7^(adjust(observation grade) - adjust(card grade)), adjust
\* taking 10 to 11: 1.1 for an unsigned card at its own grade, and
\* exponent 2 for a grade 10 observation on a grade 9 card.
C13_MultiplierFormula ==
  (mode = "scale" /\ pc = "done")
  => LET adjust(g) == IF g = 10 THEN 11 ELSE g
         m == ret[1]
     IN  /\ m.tenths = 11 * (IF arg.sign = "NONE" THEN 1 ELSE 10)
         /\ m.exp = adjust(arg.grade) - adjust(arg.card_grade)
         /\ (arg.sign = "NONE" /\ arg.grade = arg.card_grade)
            => (Num(m) = 11 /\ Den(m) = 10)
         /\ (arg.card_grade = 9 /\ arg.grade = 10)
            => (m.exp = 2 /\ Num(m) * 1000 = m.tenths * 49 * Den(m))

C13_Witness ==
  /\ mode = "scale"
  /\ pc = "done"
  /\ arg.card_grade = 9
  /\ arg.grade = 10
  /\ arg.sign = "NONE"
  /\ ret[1] = [tenths |-> 11, exp |-> 2]

\* the least and the greatest element of a nonempty sequence of numbers
Least(s) == CHOOSE x \in Range(s) : \A y \in Range(s) : x <= y
Greatest(s) == CHOOSE x \in Range(s) : \A y \in Range(s) : y <= x

\* C14: on a nonempty observation list every final weight is positive, so
\* is their sum, and the weighted average (the total over the sum of the
\* weights, before truncation) lies between the least and the greatest
\* scaled price, strictly when the two differ.
C14_EstimateWithinScaledPrices ==
  (mode = "calc" /\ pc = "done")
  => LET w == ret.weights_to_use
         lo == Least(ret.scaled_prices)
         hi == Greatest(ret.scaled_prices)
     IN  /\ \A i \in 1..Len(w) : w[i] > 0
         /\ Sum(w) > 0
         /\ lo * Sum(w) <= ret.total
         /\ ret.total <= hi * Sum(w)
         /\ lo < hi => (lo * Sum(w) < ret.total /\ ret.total < hi * Sum(w))
         /\ lo \div 10 <= ret.scaled_avg_price
         /\ ret.scaled_avg_price <= hi \div 10

C14_Witness ==
  /\ mode = "calc"
  /\ pc = "done"
  /\ Len(ret.weights_to_use) = 3
  /\ Least(ret.scaled_prices) < Greatest(ret.scaled_prices)
  /\ \E i \in 1..3 : ret.weights_to_use[i] < 1000 * pricing_data[i][3]

\* the position of a year in the lexical order of the years
YearRank(y) == CHOOSE i \in 1..Len(YearOrder) : YearOrder[i] = y

\* group key k1 is not after k2 in lexical order: the keys of the
\* collections indexed differ in their year only
KeyNotAfter(k1, k2) == YearRank(k1[1]) <= YearRank(k2[1])

Rejections ==
  {"ValueError", "Grade must be between [1, 10]", "Price must be greater than 0"}

\* C16: a step of the collection loop that rejects an entry stays at the
\* same venue/status of the same run and leaves the observations collected
\* so far as they were; every observation recorded has a price above 0 and
\* a grade in 1..10.
C16_MalformedEntryReprompts ==
  /\ [](/\ \A i \in 1..Len(pricing_data) :
             pricing_data[i][1] > 0 /\ pricing_data[i][4] \in 1..10
        /\ \A s \in 1..Len(Slots) : \A i \in 1..Len(prices_dict[s]) :
             prices_dict[s][i].price > 0 /\ prices_dict[s][i].grade \in 1..10)
  /\ [][out' \in Rejections
        => /\ pc = "collect"
           /\ pc' = "collect"
           /\ err' = err
           /\ slot' = slot
           /\ pricing_data' = pricing_data
           /\ prices_dict' = prices_dict
           /\ entered' = entered
           /\ disk' = disk
           /\ data' = data]_vars

C16_Witness ==
  /\ pc = "collect"
  /\ out = "Grade must be between [1, 10]"
  /\ slot = 2
  /\ Len(pricing_data) = 1
  /\ prices_dict[1] # <<>>

\* C17: in set_prices.json a set id is in the list of a cert exactly when
\* the set exists and the cert is one of its certs; no cert has an empty
\* list; the id the next set will take is the id of no set.
C17_SetIndexesConsistent ==
  LET d == set_prices
      ids == DOMAIN d.sets \cup UNION {Range(d.certs[c]) : c \in DOMAIN d.certs}
      certs == DOMAIN d.certs \cup UNION {Range(d.sets[i].certs) : i \in DOMAIN d.sets}
  IN  /\ \A c \in certs : \A i \in ids :
           (c \in DOMAIN d.certs /\ i \in Range(d.certs[c]))
           <=> (i \in DOMAIN d.sets /\ c \in Range(d.sets[i].certs))
      /\ \A c \in DOMAIN d.certs : d.certs[c] # <<>>
      /\ d.next_autoincrement_id \notin DOMAIN d.sets

C17_Witness ==
  /\ mode = "set"
  /\ okay = "Y"
  /\ DOMAIN set_prices.sets = {"2"}
  /\ DOMAIN set_prices.certs = {"102", "103"}
  /\ set_prices.certs["102"] = <<"2">>

\* the year collection.json lists a cert under
YearOnDisk(c) == CHOOSE y \in DOMAIN disk : c \in DOMAIN disk[y]

\* C18: after an update the card got from the store has the year it is
\* stored under, no update ends with an exception, every update is
\* written, and the cards not updated are as they were loaded.
C18_UpdateKeepsYear ==
  mode = "update"
  => /\ err = "none"
     /\ Len(writes) = runs
     /\ \A c \in DOMAIN data :
          /\ data[c].year = YearOnDisk(c)
          /\ Stored(data[c]) = disk[YearOnDisk(c)][c]
          /\ c \notin Range(writes) => data[c] = stats_data[c]

====
